---- MODULE Spec2Model ----
(***************************************************************************)
(* The import pipeline of src/src/Importer.js as a state machine:          *)
(* getEntries (collection, path resolution, early skip, concurrent         *)
(* transform fan-out, sort) followed by toFiles (conflict map, skip        *)
(* re-check, directory cache, file write, persist), driven as the CLI      *)
(* entry point drives them, on a file system that other processes may      *)
(* change between the steps.                                               *)
(*                                                                         *)
(* The path resolver (getFilePath) and the directory cache of              *)
(* src/src/DirectoryManager.js are also specified on their own, under      *)
(* every setting and every sequence of calls.                              *)
(*                                                                         *)
(* A path is the sequence of its segments ("drafts/a.md" is                *)
(* <<"drafts", "a.md">>); a trailing separator is a last segment "".       *)
(* The value false that getFilePath returns for "skip" is SkipSentinel.    *)
(***************************************************************************)
EXTENDS Integers, Sequences, FiniteSets, TLC

VARIABLES
    safeMode,               \* Importer.safeMode
    dryRun,                 \* Importer.dryRun (and directoryManager.dryRun)
    allowDraftsToOverwrite, \* Importer.allowDraftsToOverwrite
    persistTarget,          \* whether persistManager.canPersist() answers true
    filepathFormat,         \* the source's filepathFormat override function
    outputFolder,           \* Importer.#outputFolder
    assetReferenceType,     \* Importer.#assetReferenceType
    target,                 \* options.target of getEntries
    sources,                \* the entries the source enumerates
    files,                  \* paths of the files on disk
    dirs,                   \* directories on disk
    pc,                     \* where the run is
    entries,                \* getEntries: the collected array
    promises,               \* getEntries: state of each task of the fan-out
    settled,                \* task indices in the order the tasks settled
    started,                \* how many times each task was started
    cleanups,               \* calls of markdownService.cleanup()
    result,                 \* the list getEntries returned
    pos,                    \* toFiles: index of the entry the loop is at
    filepathConflicts,      \* toFiles: the path -> url map of this call
    counts,                 \* Importer.counts.files
    created,                \* DirectoryManager.created
    mkdirs,                 \* the calls fs.mkdirSync received, in order
    log,                    \* toFiles: what happened to each entry reached
    persisted,              \* the calls persistFile received, in order
    errors,                 \* getCounts().errors
    run,                    \* number of the pipeline run
    history,                \* how each earlier run ended
    external                \* changes other processes made to the disk

vars == <<safeMode, dryRun, allowDraftsToOverwrite, persistTarget, filepathFormat,
          outputFolder, assetReferenceType, target, sources, files, dirs, pc,
          entries, promises, settled, started, cleanups, result, pos,
          filepathConflicts, counts, created, mkdirs, log, persisted, errors, run,
          history, external>>

config == <<safeMode, dryRun, allowDraftsToOverwrite, persistTarget, filepathFormat,
            outputFolder, assetReferenceType, target, sources>>
disk == <<files, dirs>>
collectState == <<entries, promises, settled, started, cleanups, result>>
writeState == <<pos, filepathConflicts, counts, created, mkdirs, log, persisted>>

----------------------------------------------------------------------------
(* Bounds of the model *)

MaxEntries == 2     \* entries the source enumerates
MaxList == 2        \* entries of a list passed to toFiles
MaxItems == 1       \* entries of the source in a run of the CLI
MaxDate == 2        \* dates are 1..MaxDate
MaxRuns == 2        \* runs of the pipeline on the same disk
MaxExternal == 1    \* changes made to the disk by other processes
MaxCalls == 3       \* mkdirSync calls of a sequence of createDirectoryForPath calls

----------------------------------------------------------------------------
(* Settings the CLI fixes *)

draftsFolder == "drafts"
format == "markdown"                \* --format default

\* the values --output and --assetrefs have when they are not given
DefaultSettings ==
    /\ outputFolder = "."
    /\ assetReferenceType = "relative"

SkipSentinel == << >>

Urls == {"https://h/a", "https://g/a", "https://h/b/"}
RootUrl == "https://h/"                 \* a url whose pathname is "/"
NamedUrl == "https://h/constructor"
Statuses == {"published", "draft"}
RawEntries == [url : Urls, date : 1..MaxDate, status : Statuses]
Items == {item \in RawEntries : item.date = 1}
\* the pipeline runs on the two urls that resolve to one path
PipelineItems == {item \in Items : item.url \in {"https://h/a", "https://g/a"}}

Front(s) == SubSeq(s, 1, Len(s) - 1)
Last(s) == s[Len(s)]

RECURSIVE SeqsUpTo(_, _)
SeqsUpTo(S, n) ==
    IF n = 0 THEN {<< >>}
    ELSE LET shorter == SeqsUpTo(S, n - 1)
         IN shorter \cup {Append(s, x) : s \in {t \in shorter : Len(t) = n - 1}, x \in S}

----------------------------------------------------------------------------
(* Paths *)

\* new URL(url).pathname, as segments after the leading "/"
URLPathname(url) ==
    CASE url = "https://h/a" -> <<"a">>
      [] url = "https://g/a" -> <<"a">>
      [] url = "https://h/b/" -> <<"b", "">>
      [] url = "https://h/constructor" -> <<"constructor">>
      [] OTHER -> <<"">>

URLHost(url) ==
    CASE url = "https://h/a" -> "h"
      [] url = "https://g/a" -> "g"
      [] url = "https://h/b/" -> "h"
      [] OTHER -> "h"

\* Fetcher.createHash(url)
createHash(url) == "hash:" \o url

\* path.join of two paths: "." segments and inner empty segments disappear,
\* a trailing separator of the last part stays, an empty last part (<<"">>)
\* adds nothing
RECURSIVE dropInner(_)
dropInner(s) ==
    IF s = << >> THEN << >>
    ELSE IF Head(s) = "." \/ (Head(s) = "" /\ Len(s) > 1) THEN dropInner(Tail(s))
    ELSE <<Head(s)>> \o dropInner(Tail(s))

pathJoin(a, b) ==
    LET joined == dropInner(IF b = <<"">> THEN a ELSE a \o b)
    IN IF joined = << >> \/ joined = <<"">> THEN <<".">> ELSE joined

\* path.dirname
dirname(pathname) ==
    LET p == IF Last(pathname) = "" THEN Front(pathname) ELSE pathname
    IN IF Len(p) <= 1 THEN <<".">> ELSE Front(p)

\* The functions a caller may pass as filepathFormat: none; "posts", which
\* returns false for every url of host g and files the others under posts/
\* with the extension .md; "slug", which returns the last name of the
\* fallback path as it is
FilepathFormats == {"none", "posts"}
AllFilepathFormats == {"none", "posts", "slug"}

filepathFormatFunction(fn, url, fallbackPath) ==
    LET stem == IF Last(fallbackPath) = "" THEN Front(fallbackPath) ELSE fallbackPath
    IN IF fn = "slug"
       THEN IF stem = << >> THEN <<"">> ELSE <<Last(stem)>>
       ELSE IF URLHost(url) = "g" THEN SkipSentinel
       ELSE IF stem = << >> THEN <<"posts", "index.md">>
       ELSE <<"posts">> \o Front(stem) \o <<Last(stem) \o ".md">>

\* isAssetsColocated answering false whatever --assetrefs is
isAssetsColocated_Never == FALSE

isAssetsColocated == assetReferenceType = "colocate"

\* a source whose override function is never found
outputOverrideFn_Never == FALSE

\* whether the source of the entry has an override function
outputOverrideFn == filepathFormat # "none"

getFilePath(entry, contentType) ==
    LET url == entry.url
        fallbackPath == URLPathname(url)
    IN IF outputOverrideFn
       THEN LET pathname == filepathFormatFunction(filepathFormat, url, fallbackPath)
            IN IF pathname = SkipSentinel THEN SkipSentinel
               ELSE pathJoin(<<outputFolder>>, pathname)
       ELSE LET fallback == IF fallbackPath = <<"">> THEN <<createHash(url)>>
                            ELSE fallbackPath
                subdirs == (IF outputFolder # "" THEN <<outputFolder>> ELSE << >>)
                           \o (IF draftsFolder # "" /\ entry.status = "draft"
                               THEN <<draftsFolder>> ELSE << >>)
                pathname == pathJoin(<<".">> \o subdirs, fallback)
                extension == IF contentType = "markdown" THEN ".md" ELSE ".html"
            IN IF Last(pathname) = ""
               THEN IF isAssetsColocated
                    THEN pathJoin(pathname, <<"index" \o extension>>)
                    ELSE LET sliced == Front(pathname)
                         IN Front(sliced) \o <<Last(sliced) \o extension>>
               ELSE IF isAssetsColocated
                    THEN pathJoin(pathname, <<"index" \o extension>>)
                    ELSE Front(pathname) \o <<Last(pathname) \o extension>>

\* DirectoryManager.getDirectory; "" is the empty path
getDirectory(pathname) ==
    LET dir == dirname(pathname)
    IN IF dir = <<"">> THEN << >> ELSE dir

----------------------------------------------------------------------------
(* Skip policy *)

existsSync(pathname) == pathname \in files \/ pathname \in dirs

\* shouldSkipEntry without the look at the disk
shouldSkipEntry_SentinelOnly(entry) == entry.filePath = SkipSentinel

\* shouldSkipEntry with the draft exception joined by "and"
shouldSkipEntry_DraftAnd(entry) ==
    \/ entry.filePath = SkipSentinel
    \/ (safeMode /\ existsSync(entry.filePath)
            /\ (entry.status # "draft" /\ ~allowDraftsToOverwrite))

\* shouldSkipEntry letting every draft overwrite
shouldSkipEntry_DraftsOverwrite(entry) ==
    \/ entry.filePath = SkipSentinel
    \/ (safeMode /\ existsSync(entry.filePath) /\ entry.status # "draft")

shouldSkipEntry(entry) ==
    IF entry.filePath = SkipSentinel THEN TRUE
    ELSE IF safeMode /\ existsSync(entry.filePath)
            /\ (entry.status # "draft" \/ ~allowDraftsToOverwrite)
         THEN TRUE
         ELSE FALSE

----------------------------------------------------------------------------
(* Content *)

isHtml(entry) == entry.contentType = "html"
isText(entry) == entry.contentType = "text"
shouldConvertToMarkdown(entry) == isHtml(entry)
shouldUseMarkdownFileExtension(entry) == isText(entry) \/ isHtml(entry)
shouldDownloadAssets == assetReferenceType # "disabled"
isWritingToMarkdown == format = "markdown"

\* The content a task that does not throw leaves in the entry
getTransformedContent(entry) ==
    LET decoded == IF isHtml(entry) /\ ~isWritingToMarkdown
                   THEN "decoded(" \o entry.content \o ")" ELSE entry.content
        html == IF isHtml(entry) /\ shouldDownloadAssets
                THEN "assets(" \o decoded \o ")" ELSE decoded
        text == IF isWritingToMarkdown /\ isText(entry)
                THEN "newlines(" \o html \o ")" ELSE html
    IN IF isWritingToMarkdown /\ shouldConvertToMarkdown(entry)
       THEN "markdown(" \o text \o ")" ELSE text

convertEntryToYaml(entry) ==
    [date |-> entry.date, url |-> entry.url, draft |-> entry.status = "draft"]

\* `---\n${frontMatter}---\n${entry.content}`
fileContent(entry) ==
    [frontMatter |-> convertEntryToYaml(entry), body |-> entry.content]

----------------------------------------------------------------------------
(* The sort of getEntries: Array.prototype.sort is stable *)

\* the comparator with its results exchanged
compareEntries_Ascending(a, b) ==
    IF a.date < b.date THEN -1
    ELSE IF a.date > b.date THEN 1
    ELSE 0

compareEntries(a, b) ==
    IF a.date < b.date THEN 1
    ELSE IF a.date > b.date THEN -1
    ELSE 0

\* an insertion that puts an entry before the entries it ties with
RECURSIVE insertSorted_Unstable(_, _)
insertSorted_Unstable(s, e) ==
    IF s = << >> \/ compareEntries(Last(s), e) < 0 THEN Append(s, e)
    ELSE Append(insertSorted_Unstable(Front(s), e), Last(s))

RECURSIVE insertSorted(_, _)
insertSorted(s, e) ==
    IF s = << >> \/ compareEntries(Last(s), e) <= 0 THEN Append(s, e)
    ELSE Append(insertSorted(Front(s), e), Last(s))

RECURSIVE sortEntries(_)
sortEntries(s) ==
    IF s = << >> THEN << >>
    ELSE insertSorted(sortEntries(Front(s)), Last(s))

----------------------------------------------------------------------------
(* Initial states: a configured Importer with one source, before getEntries *)

NoLog == << >>

InitImporter ==
    /\ entries = << >>
    /\ promises = << >>
    /\ settled = << >>
    /\ started = << >>
    /\ cleanups = 0
    /\ pos = 0
    /\ filepathConflicts = {}
    /\ counts = 0
    /\ created = {}
    /\ mkdirs = << >>
    /\ log = NoLog
    /\ persisted = << >>
    /\ errors = 0

InitRun ==
    /\ files = {}
    /\ dirs = {<<".">>}
    /\ run = 1
    /\ history = << >>
    /\ external = 0
    /\ InitImporter
    /\ result = << >>
    /\ pc = "main"

\* the CLI always asks for the entries of a file system import; --persist is
\* not given
Init ==
    /\ safeMode \in BOOLEAN
    /\ dryRun \in BOOLEAN
    /\ allowDraftsToOverwrite \in BOOLEAN
    /\ persistTarget = FALSE
    /\ filepathFormat \in FilepathFormats
    /\ DefaultSettings
    /\ target = "fs"
    /\ sources \in SeqsUpTo(PipelineItems, MaxItems)
    /\ InitRun

----------------------------------------------------------------------------
(* getEntries *)

\* the entry object a source hands over for an item, the k-th it enumerates
newEntry(item, k) ==
    [id |-> k, url |-> item.url, date |-> item.date, status |-> item.status,
     contentType |-> "html", content |-> "raw"]

sourceEntry(k) == newEntry(sources[k], k)

withFilePath(entry) ==
    LET contentType == IF shouldUseMarkdownFileExtension(entry) /\ isWritingToMarkdown
                       THEN "markdown" ELSE entry.contentType
    IN [id |-> entry.id, url |-> entry.url, date |-> entry.date,
        status |-> entry.status, contentType |-> entry.contentType,
        content |-> entry.content, filePath |-> getFilePath(entry, contentType)]

\* a collection loop that keeps every entry
RECURSIVE collectEntries_All(_)
collectEntries_All(k) ==
    IF k = 0 THEN << >>
    ELSE Append(collectEntries_All(k - 1), withFilePath(sourceEntry(k)))

\* the entries array after the collection loop over the first k items
RECURSIVE collectEntries(_)
collectEntries(k) ==
    IF k = 0 THEN << >>
    ELSE LET entry == withFilePath(sourceEntry(k))
         IN IF target = "fs" /\ shouldSkipEntry(entry)
            THEN collectEntries(k - 1)
            ELSE Append(collectEntries(k - 1), entry)

\* getEntries up to the await of Promise.allSettled: every task has started
getEntriesCollect ==
    /\ pc = "main"
    /\ entries' = collectEntries(Len(sources))
    /\ promises' = [i \in 1..Len(entries') |-> "pending"]
    /\ started' = [i \in 1..Len(entries') |-> 1]
    /\ settled' = << >>
    /\ pc' = "fanout"
    /\ UNCHANGED <<config, disk, cleanups, result, writeState, errors, run, history,
                   external>>

\* a task that resolves the path of its entry again, from the content type
\* the entry has
transformedEntry_NewPath(entry) ==
    [entry EXCEPT !.content = getTransformedContent(entry),
                  !.contentType = IF isWritingToMarkdown /\ shouldConvertToMarkdown(entry)
                                  THEN "markdown" ELSE @,
                  !.filePath = getFilePath(entry, entry.contentType)]

\* the entry as its task returns it
transformedEntry(entry) ==
    [entry EXCEPT !.content = getTransformedContent(entry),
                  !.contentType = IF isWritingToMarkdown /\ shouldConvertToMarkdown(entry)
                                  THEN "markdown" ELSE @]

\* the task of entry i returns the entry
taskFulfilled(i) ==
    /\ pc = "fanout"
    /\ i \in 1..Len(entries)
    /\ promises[i] = "pending"
    /\ entries' = [entries EXCEPT ![i] = transformedEntry(entries[i])]
    /\ promises' = [promises EXCEPT ![i] = "fulfilled"]
    /\ settled' = Append(settled, i)
    /\ UNCHANGED <<config, disk, pc, started, cleanups, result, writeState, errors,
                   run, history, external>>

\* the task of entry i throws (in fetchRelatedMedia or getTransformedContent)
taskRejected(i) ==
    /\ pc = "fanout"
    /\ i \in 1..Len(entries)
    /\ promises[i] = "pending"
    /\ promises' = [promises EXCEPT ![i] = "rejected"]
    /\ settled' = Append(settled, i)
    /\ UNCHANGED <<config, disk, pc, entries, started, cleanups, result, writeState,
                   errors, run, history, external>>

\* the values of all promises, rejected or not
RECURSIVE fulfilledValues_All(_)
fulfilledValues_All(k) ==
    IF k = 0 THEN << >> ELSE Append(fulfilledValues_All(k - 1), entries[k])

\* the values of the promises that are not rejected, in the order of the array
RECURSIVE fulfilledValues(_)
fulfilledValues(k) ==
    IF k = 0 THEN << >>
    ELSE IF promises[k] # "rejected"
         THEN Append(fulfilledValues(k - 1), entries[k])
         ELSE fulfilledValues(k - 1)

\* an await that does not wait for the tasks
allSettled_NoWait == TRUE

\* the promise of Promise.allSettled is resolved
allSettled == \A i \in 1..Len(entries) : promises[i] # "pending"

\* getEntries after Promise.allSettled
getEntriesReturn ==
    /\ pc = "fanout"
    /\ allSettled
    /\ cleanups' = IF ~dryRun THEN cleanups + 1 ELSE cleanups
    /\ result' = sortEntries(fulfilledValues(Len(entries)))
    /\ pc' = "entries"
    /\ UNCHANGED <<config, disk, entries, promises, settled, started, writeState,
                   errors, run, history, external>>

----------------------------------------------------------------------------
(* toFiles *)

\* own properties every object literal inherits: filepathConflicts is {}
ObjectPrototypeKeys ==
    {<<"constructor">>, <<"toString">>, <<"valueOf">>, <<"hasOwnProperty">>,
     <<"__proto__">>}

\* a lookup that never finds the claims of the call
hasConflict_NoClaims(pathname) == pathname \in ObjectPrototypeKeys

\* filepathConflicts[pathname], as the if reads it
hasConflict(pathname) ==
    \/ pathname \in ObjectPrototypeKeys
    \/ \E claim \in filepathConflicts : claim.pathname = pathname

\* a claim that is made only for an entry the skip policy lets through
claimPath_UnlessSkipped(pathname, entry) ==
    IF shouldSkipEntry(entry) THEN filepathConflicts
    ELSE {claim \in filepathConflicts : claim.pathname # pathname}
             \cup {[pathname |-> pathname, via |-> entry.url]}

\* filepathConflicts[pathname] = entry.url || true
claimPath(pathname, entry) ==
    {claim \in filepathConflicts : claim.pathname # pathname}
        \cup {[pathname |-> pathname, via |-> entry.url]}

canPersist == persistTarget

\* the persist step without the draft test
shouldPersist_Drafts(entry) == canPersist

\* the persist step held back by a dry run
shouldPersist_NotDryRun(entry) == entry.status # "draft" /\ canPersist /\ ~dryRun

\* the condition of the persist step
shouldPersist(entry) == entry.status # "draft" /\ canPersist

\* a write step that a dry run does not hold back
shouldWrite_Always == TRUE

\* the condition of the write step
shouldWrite == ~dryRun

persistCall(entry) ==
    [pathname |-> entry.filePath, content |-> fileContent(entry),
     url |-> entry.url, type |-> "post"]

RECURSIVE ancestors(_)
ancestors(dir) ==
    IF Len(dir) <= 1 THEN {dir} ELSE {dir} \cup ancestors(Front(dir))

\* createDirectoryForPath without the look into the created set
needsMkdir_NoCache(pathname) ==
    /\ ~dryRun
    /\ getDirectory(pathname) # << >>

\* whether createDirectoryForPath calls mkdirSync
needsMkdir(pathname) ==
    /\ ~dryRun
    /\ getDirectory(pathname) # << >>
    /\ getDirectory(pathname) \notin created

\* a call of fs.mkdirSync(dir, { recursive: true }), as the file system sees it
mkdirCall(dir, returned) ==
    [dir |-> dir, cached |-> dir \in created, dryRun |-> dryRun,
     returned |-> returned]

\* DirectoryManager.createDirectoryForPath when mkdirSync does not throw
createDirectoryForPath(pathname) ==
    IF needsMkdir(pathname)
    THEN /\ dirs' = dirs \cup ancestors(getDirectory(pathname))
         /\ created' = created \cup {getDirectory(pathname)}
         /\ mkdirs' = Append(mkdirs, mkdirCall(getDirectory(pathname), TRUE))
    ELSE UNCHANGED <<dirs, created, mkdirs>>

\* DirectoryManager.createDirectoryForPath when mkdirSync throws: it may, for a
\* directory that is not there yet
createDirectoryForPathThrows(pathname) ==
    /\ needsMkdir(pathname)
    /\ getDirectory(pathname) \notin dirs
    /\ mkdirs' = Append(mkdirs, mkdirCall(getDirectory(pathname), FALSE))
    /\ UNCHANGED <<dirs, created>>

logEntry(entry, outcome, didPersist) ==
    [id |-> entry.id, url |-> entry.url, status |-> entry.status,
     pathname |-> entry.filePath,
     existed |-> (entry.filePath # SkipSentinel /\ existsSync(entry.filePath)),
     outcome |-> outcome, persisted |-> didPersist]

\* the paths toFiles has written in this call
writtenPaths == {log[j].pathname : j \in {i \in 1..Len(log) : log[i].outcome = "written"}}

\* a conflict error that takes back what the call wrote and forwarded
throwConflictError_Rollback(entry) ==
    /\ log' = Append(log, logEntry(entry, "conflict", FALSE))
    /\ pc' = "conflict"
    /\ files' = files \ writtenPaths
    /\ persisted' = << >>
    /\ UNCHANGED <<pos, dirs, filepathConflicts, counts, created, mkdirs>>

\* throw new Error("Multiple entries attempted to write to the same place")
throwConflictError(entry) ==
    /\ log' = Append(log, logEntry(entry, "conflict", FALSE))
    /\ pc' = "conflict"
    /\ UNCHANGED <<pos, disk, filepathConflicts, counts, created, mkdirs, persisted>>

\* what the file system may answer to the calls of one iteration: mkdirSync
\* may throw for a directory that is not there yet, writeFileSync for any path
Faults == {"none", "mkdir", "write"}

toFilesBegin ==
    /\ pc = "entries"
    /\ filepathConflicts' = {}
    /\ pos' = 1
    /\ log' = NoLog
    /\ pc' = "toFiles"
    /\ entries' = << >>          \* the locals of getEntries are gone
    /\ settled' = << >>
    /\ started' = << >>
    /\ UNCHANGED <<config, disk, promises, cleanups, result, counts, created, mkdirs,
                   persisted, errors, run, history, external>>

\* one iteration of the loop of toFiles
toFilesEntry(fault) ==
    /\ pc = "toFiles"
    /\ pos <= Len(result)
    /\ LET entry == result[pos]
           pathname == entry.filePath
       IN IF pathname = SkipSentinel
          THEN /\ fault = "none"
               /\ log' = Append(log, logEntry(entry, "sentinel", FALSE))
               /\ pos' = pos + 1
               /\ UNCHANGED <<pc, disk, filepathConflicts, counts, created, mkdirs,
                              persisted>>
          ELSE IF hasConflict(pathname)
          THEN /\ fault = "none"
               /\ throwConflictError(entry)
          ELSE /\ filepathConflicts' = claimPath(pathname, entry)
               /\ IF shouldSkipEntry(entry)
                  THEN /\ fault = "none"
                       /\ log' = Append(log, logEntry(entry, "skipped", FALSE))
                       /\ pos' = pos + 1
                       /\ UNCHANGED <<pc, disk, counts, created, mkdirs, persisted>>
                  ELSE IF shouldWrite /\ fault = "mkdir"
                  THEN /\ createDirectoryForPathThrows(pathname)
                       /\ counts' = counts + 1
                       /\ log' = Append(log, logEntry(entry, "mkdirFailed", FALSE))
                       /\ pc' = "fsError"
                       /\ UNCHANGED <<pos, files, persisted>>
                  ELSE IF shouldWrite /\ fault = "write"
                  THEN /\ counts' = counts + 1
                       /\ createDirectoryForPath(pathname)
                       /\ log' = Append(log, logEntry(entry, "writeFailed", FALSE))
                       /\ pc' = "fsError"
                       /\ UNCHANGED <<pos, files, persisted>>
                  ELSE /\ fault = "none"
                       /\ IF shouldWrite
                          THEN /\ counts' = counts + 1
                               /\ createDirectoryForPath(pathname)
                               /\ files' = files \cup {pathname}
                          ELSE UNCHANGED <<counts, created, mkdirs, dirs, files>>
                       /\ persisted' = IF shouldPersist(entry)
                                       THEN Append(persisted, persistCall(entry))
                                       ELSE persisted
                       /\ log' = Append(log, logEntry(entry,
                                     IF shouldWrite THEN "written" ELSE "dryRun",
                                     shouldPersist(entry)))
                       /\ pos' = pos + 1
                       /\ UNCHANGED pc
    /\ UNCHANGED <<config, collectState, errors, run, history, external>>

toFilesReturn ==
    /\ pc = "toFiles"
    /\ pos > Len(result)
    /\ pc' = "done"
    /\ UNCHANGED <<config, disk, collectState, writeState, errors, run, history,
                   external>>

----------------------------------------------------------------------------
(* The environment *)

Ended == pc \in {"done", "conflict", "fsError"}

rejectedTasks == {i \in 1..Len(promises) : promises[i] = "rejected"}

\* the command is run again: a new process, a new Importer, the same disk
nextRun ==
    /\ pc = "done"
    /\ run < MaxRuns
    /\ history' = Append(history, [end |-> pc, rejected |-> Cardinality(rejectedTasks),
                                   files |-> counts])
    /\ run' = run + 1
    /\ pc' = "main"
    /\ entries' = << >>
    /\ promises' = << >>
    /\ settled' = << >>
    /\ started' = << >>
    /\ cleanups' = 0
    /\ result' = << >>
    /\ pos' = 0
    /\ filepathConflicts' = {}
    /\ counts' = 0
    /\ created' = {}
    /\ mkdirs' = << >>
    /\ log' = NoLog
    /\ persisted' = << >>
    /\ errors' = 0
    /\ UNCHANGED <<config, disk, external>>

\* the paths the run can touch
WatchedPaths ==
    ({withFilePath(sourceEntry(k)).filePath : k \in 1..Len(sources)}
        \cup {result[k].filePath : k \in 1..Len(result)}) \ {SkipSentinel}

\* another process creates or deletes a file; a change while the tasks of the
\* fan-out run is seen by the run as a change right after them
externalChange(pathname) ==
    /\ external < MaxExternal
    /\ pc \in {"main", "entries", "toFiles"}
    /\ pathname \in WatchedPaths
    /\ files' = IF pathname \in files THEN files \ {pathname} ELSE files \cup {pathname}
    /\ external' = external + 1
    /\ UNCHANGED <<config, dirs, pc, collectState, writeState, errors, run, history>>

----------------------------------------------------------------------------

\* the CLI: getEntries for the file system, then toFiles, run after run
Next ==
    \/ getEntriesCollect
    \/ \E i \in 1..Len(entries) : taskFulfilled(i)
    \/ \E i \in 1..Len(entries) : taskRejected(i)
    \/ getEntriesReturn
    \/ toFilesBegin
    \/ \E fault \in Faults : toFilesEntry(fault)
    \/ toFilesReturn
    \/ nextRun
    \/ \E pathname \in WatchedPaths : externalChange(pathname)

Spec == Init /\ [][Next]_vars

----------------------------------------------------------------------------
(* getEntries alone, called for the data and not for the file system *)

InitEntries ==
    /\ safeMode = TRUE
    /\ dryRun \in BOOLEAN
    /\ allowDraftsToOverwrite = FALSE
    /\ persistTarget = FALSE
    /\ filepathFormat \in FilepathFormats
    /\ DefaultSettings
    /\ target = "data"
    /\ sources \in SeqsUpTo(RawEntries, MaxEntries)
    /\ InitRun

NextEntries ==
    \/ getEntriesCollect
    \/ \E i \in 1..Len(entries) : taskFulfilled(i)
    \/ \E i \in 1..Len(entries) : taskRejected(i)
    \/ getEntriesReturn

SpecEntries == InitEntries /\ [][NextEntries]_vars

----------------------------------------------------------------------------
(* toFiles alone, on a list its caller passes *)

\* an entry as getEntries leaves it when its task is fulfilled
writerEntry(item, k) ==
    LET entry == withFilePath(newEntry(item, k))
    IN [entry EXCEPT !.content = getTransformedContent(entry),
                     !.contentType = "markdown"]

\* what the entries of a list may come from
WriterItems == Items \cup {[url |-> NamedUrl, date |-> 1, status |-> "published"]}

InitWriter ==
    /\ safeMode \in BOOLEAN
    /\ dryRun \in BOOLEAN
    /\ allowDraftsToOverwrite \in BOOLEAN
    /\ persistTarget \in BOOLEAN
    /\ filepathFormat \in AllFilepathFormats
    /\ DefaultSettings
    /\ target = "data"
    /\ sources = << >>
    /\ files = {}
    /\ dirs = {<<".">>}
    /\ run = 1
    /\ history = << >>
    /\ external = 0
    /\ InitImporter
    /\ \E items \in SeqsUpTo(WriterItems, MaxList) :
           result = [k \in 1..Len(items) |-> writerEntry(items[k], k)]
    /\ pc = "entries"

NextWriter ==
    \/ toFilesBegin
    \/ \E fault \in Faults : toFilesEntry(fault)
    \/ toFilesReturn
    \/ \E pathname \in WatchedPaths : externalChange(pathname)

SpecWriter == InitWriter /\ [][NextWriter]_vars

----------------------------------------------------------------------------
(* The path resolver alone, on one entry of a source, under every setting *)

OutputFolders == {".", "out", ""}
AssetReferenceTypes == {"relative", "colocate", "absolute", "disabled"}
ContentTypes == {"html", "text", "unknown"}
PathItems ==
    [url : Urls \cup {RootUrl, NamedUrl}, date : {1}, status : Statuses]

InitPaths ==
    /\ safeMode = TRUE
    /\ dryRun = FALSE
    /\ allowDraftsToOverwrite = FALSE
    /\ persistTarget = FALSE
    /\ filepathFormat \in AllFilepathFormats
    /\ outputFolder \in OutputFolders
    /\ assetReferenceType \in AssetReferenceTypes
    /\ target = "data"
    /\ sources = << >>
    /\ InitRun

\* the collection loop of getEntries on one entry: entry.filePath =
\* this.getFilePath(entry, contentType)
resolveFilePath(item, contentType) ==
    /\ pc = "main"
    /\ entries' = <<withFilePath([newEntry(item, 1) EXCEPT !.contentType = contentType])>>
    /\ UNCHANGED <<config, disk, pc, promises, settled, started, cleanups, result,
                   writeState, errors, run, history, external>>

NextPaths ==
    \E item \in PathItems, contentType \in ContentTypes : resolveFilePath(item, contentType)

SpecPaths == InitPaths /\ [][NextPaths]_vars

----------------------------------------------------------------------------
(* The directory cache alone, called by whoever holds the DirectoryManager *)

\* "/test.html" is <<"", "test.html">>: its directory is the root
DirPaths ==
    {<<"a.md">>, <<"posts", "a.md">>, <<"posts", "b.md">>, <<"drafts", "a.md">>,
     <<"", "test.html">>}

\* new DirectoryManager()
InitDirectoryManager ==
    /\ safeMode = TRUE
    /\ dryRun = FALSE
    /\ allowDraftsToOverwrite = FALSE
    /\ persistTarget = FALSE
    /\ filepathFormat = "none"
    /\ DefaultSettings
    /\ target = "data"
    /\ sources = << >>
    /\ InitRun

setDryRun(isDryRun) ==
    /\ pc = "main"
    /\ dryRun' = isDryRun
    /\ UNCHANGED <<safeMode, allowDraftsToOverwrite, persistTarget, filepathFormat,
                   outputFolder, assetReferenceType, target, sources, disk, pc,
                   collectState, writeState, errors, run, history, external>>

\* one call of createDirectoryForPath
callCreateDirectoryForPath(pathname, fault) ==
    /\ pc = "main"
    /\ Len(mkdirs) < MaxCalls
    /\ IF fault = "mkdir"
       THEN createDirectoryForPathThrows(pathname)
       ELSE fault = "none" /\ createDirectoryForPath(pathname)
    /\ UNCHANGED <<config, files, pc, collectState, pos, filepathConflicts, counts,
                   log, persisted, errors, run, history, external>>

NextDirectoryManager ==
    \/ \E isDryRun \in BOOLEAN : setDryRun(isDryRun)
    \/ \E pathname \in DirPaths, fault \in {"none", "mkdir"} :
           callCreateDirectoryForPath(pathname, fault)

SpecDirectoryManager == InitDirectoryManager /\ [][NextDirectoryManager]_vars

----------------------------------------------------------------------------
(* Properties of toFiles *)

reached == 1..Len(log)

\* the skip policy, from what an iteration saw of its entry
policyHolds(r) ==
    \/ r.pathname = SkipSentinel
    \/ (safeMode /\ r.existed /\ (r.status # "draft" \/ ~allowDraftsToOverwrite))

\* C1: in one call of toFiles an entry whose non-skip path an earlier entry of
\* the call already has ends the call with the conflict error, nothing being
\* written or persisted for it; no path is written or persisted twice.
C1_NoPathWrittenTwice ==
    /\ \A j, k \in reached :
           (j < k /\ log[k].pathname # SkipSentinel /\ log[j].pathname = log[k].pathname)
               => /\ log[k].outcome = "conflict"
                  /\ ~log[k].persisted
                  /\ k = Len(log)
                  /\ pc = "conflict"
    /\ \A j, k \in reached :
           (j # k /\ log[j].outcome = "written" /\ log[k].outcome = "written")
               => log[j].pathname # log[k].pathname
    /\ \A j, k \in reached :
           (j # k /\ log[j].persisted /\ log[k].persisted)
               => log[j].pathname # log[k].pathname

C1_Witness ==
    /\ pc = "conflict"
    /\ ~safeMode
    /\ \E j, k \in reached :
           /\ j < k
           /\ log[j].pathname = log[k].pathname
           /\ log[j].url # log[k].url
           /\ log[j].outcome = "written"
           /\ log[k].outcome = "conflict"

\* C2: in safe mode toFiles writes no file where a file exists when the entry
\* is processed, unless the entry is a draft and drafts may overwrite.
C2_SafeModeNeverOverwrites ==
    safeMode =>
        \A k \in reached :
            (log[k].outcome = "written" /\ log[k].existed)
                => (log[k].status = "draft" /\ allowDraftsToOverwrite)

\* a file that appeared while toFiles was running is not overwritten
C2_Witness ==
    /\ safeMode
    /\ external = 1
    /\ \E j, k \in reached :
           /\ j < k
           /\ log[j].outcome = "written"
           /\ ~log[j].existed
           /\ log[k].existed
           /\ log[k].outcome = "skipped"

\* the entries shouldSkipEntry may be asked about
SkipInputs ==
    [filePath : WatchedPaths \cup {SkipSentinel}, status : Statuses]

\* C3: shouldSkipEntry(entry) is true exactly when the path is the skip
\* sentinel, or safe mode is on and a file exists at the path and the entry is
\* not a draft or drafts may not overwrite; toFiles skips exactly those entries.
C3_SkipPolicy ==
    /\ \A entry \in SkipInputs :
           shouldSkipEntry(entry) <=>
               \/ entry.filePath = SkipSentinel
               \/ /\ safeMode
                  /\ existsSync(entry.filePath)
                  /\ (entry.status # "draft" \/ ~allowDraftsToOverwrite)
    /\ \A k \in reached :
           log[k].outcome # "conflict"
               => (log[k].outcome \in {"sentinel", "skipped"} <=> policyHolds(log[k]))

\* a draft whose file exists is written when drafts may overwrite, and one is
\* skipped in a call where they may not
C3_Witness ==
    /\ safeMode
    /\ \E k \in reached :
           /\ log[k].status = "draft"
           /\ log[k].existed
           /\ \/ (allowDraftsToOverwrite /\ log[k].outcome = "written")
              \/ (~allowDraftsToOverwrite /\ log[k].outcome = "skipped")
    /\ \E entry \in SkipInputs :
           entry.status = "draft" /\ entry.filePath # SkipSentinel
               /\ existsSync(entry.filePath)
               /\ (shouldSkipEntry(entry) <=> ~allowDraftsToOverwrite)

\* C9: persistFile is never called for a draft.
C9_DraftsNeverPersisted ==
    /\ \A k \in reached : log[k].persisted => log[k].status # "draft"
    /\ \A n \in 1..Len(persisted) : ~persisted[n].content.frontMatter.draft

C9_Witness ==
    /\ persistTarget
    /\ Len(persisted) > 0
    /\ \E k \in reached :
           /\ log[k].status = "draft"
           /\ log[k].outcome \in {"written", "dryRun"}
           /\ ~log[k].persisted

\* the calls of persistFile this call of toFiles should have made so far
RECURSIVE expectedCalls(_)
expectedCalls(k) ==
    IF k = 0 THEN << >>
    ELSE IF log[k].outcome \in {"written", "dryRun"} /\ log[k].status # "draft"
            /\ persistTarget
         THEN Append(expectedCalls(k - 1),
                     [pathname |-> log[k].pathname,
                      content |-> fileContent(result[k]),
                      url |-> log[k].url, type |-> "post"])
         ELSE expectedCalls(k - 1)

----------------------------------------------------------------------------
(* Properties of getEntries *)

Returned == pc = "entries"

fulfilledTasks == {i \in 1..Len(promises) : promises[i] = "fulfilled"}

\* C5: getEntries returns exactly the entries whose task did not throw, each
\* as its task left it; every task has settled and was started once.
C5_FailureIsolation ==
    Returned =>
        /\ \A i \in 1..Len(entries) : promises[i] \in {"fulfilled", "rejected"}
        /\ \A i \in 1..Len(entries) : started[i] = 1
        /\ Len(settled) = Len(entries)
        /\ Len(result) = Len(entries) - Cardinality(rejectedTasks)
        /\ \A i \in fulfilledTasks : \E k \in 1..Len(result) : result[k] = entries[i]
        /\ \A k \in 1..Len(result) : \E i \in fulfilledTasks : result[k] = entries[i]
        /\ \A j, k \in 1..Len(result) : j # k => result[j].id # result[k].id

C5_Witness ==
    /\ Returned
    /\ Len(entries) = 2
    /\ promises[1] = "rejected"
    /\ promises[2] = "fulfilled"
    /\ settled = <<1, 2>>
    /\ result = <<entries[2]>>

\* C6: after getEntries the error count has grown by the number of tasks that
\* threw.
C6_FailuresCounted ==
    Returned => errors = Cardinality(rejectedTasks)

\* C7: the list getEntries returns is sorted by date, descending.
C7_SortedByDateDescending ==
    Returned =>
        \A i, j \in 1..Len(result) : i < j => result[i].date >= result[j].date

\* the source gave the older entry first and the tasks settled in that order
C7_Witness ==
    /\ Returned
    /\ Len(result) = 2
    /\ result[1].date > result[2].date
    /\ result[1].id > result[2].id
    /\ settled = <<1, 2>>

\* the place of the task of a returned entry in the order of settling
settledAt(entry) ==
    CHOOSE n \in 1..Len(settled) : entries[settled[n]].id = entry.id

\* C8 as stated: returned entries of equal date are in the order in which
\* their tasks completed.
C8_TiesInCompletionOrder ==
    Returned =>
        \A i, j \in 1..Len(result) :
            (i < j /\ result[i].date = result[j].date)
                => settledAt(result[i]) < settledAt(result[j])

\* C8 amended: returned entries of equal date are in the order in which they
\* were collected from the sources, whatever the order in which their tasks
\* completed.
C8_TiesInCollectionOrder ==
    Returned =>
        \A i, j \in 1..Len(result) :
            (i < j /\ result[i].date = result[j].date)
                => result[i].id < result[j].id

C8_Witness ==
    /\ Returned
    /\ Len(result) = 2
    /\ result[1].date = result[2].date
    /\ settled = <<2, 1>>
    /\ result[1].id = 1

----------------------------------------------------------------------------
(* Properties of the pipeline *)

hasDraft == \E k \in 1..Len(sources) : sources[k].status = "draft"

SecondRun ==
    /\ run = 2
    /\ history[1].end = "done"
    /\ safeMode
    /\ external = 0

----------------------------------------------------------------------------
(* Properties of a dry run *)

\* C11: in a dry run no step of toFiles creates a directory, writes a file,
\* increments counts.files or adds to the created set of the directory cache
\* (nor calls mkdirSync), whatever the list of entries.
C11_DryRunLeavesDiskAlone ==
    [][(dryRun /\ external' = external)
           => UNCHANGED <<files, dirs, counts, created, mkdirs>>]_vars

\* a dry run went through two entries that a normal run would have written,
\* one of them into a directory that does not exist
C11_Witness ==
    /\ dryRun
    /\ pc = "done"
    /\ Len(log) = 2
    /\ \A k \in reached : log[k].outcome = "dryRun"
    /\ \E k \in reached : getDirectory(log[k].pathname) \notin dirs
    /\ files = {}
    /\ counts = 0
    /\ created = {}

----------------------------------------------------------------------------
(* Properties of the directory cache *)

mkdirCalls == 1..Len(mkdirs)

\* C12 as stated: mkdirSync is called at most once for each directory, only
\* for a directory that is not in the created set, never in a dry run and
\* never for the root; the created set only grows and holds exactly the
\* directories mkdirSync was called for.
C12_MkdirAtMostOncePerDirectory ==
    /\ [](/\ \A m, n \in mkdirCalls : m # n => mkdirs[m].dir # mkdirs[n].dir
          /\ \A n \in mkdirCalls :
                 ~mkdirs[n].cached /\ ~mkdirs[n].dryRun
                     /\ mkdirs[n].dir \notin {<< >>, <<"">>}
          /\ created = {mkdirs[n].dir : n \in mkdirCalls})
    /\ [][created \subseteq created']_vars

\* C12 amended: mkdirSync is called only for a directory that is not in the
\* created set, never in a dry run and never for the root; after a call for a
\* directory has returned no further call is made for it, while a call that
\* threw may be repeated; the created set only grows and holds exactly the
\* directories for which a call of mkdirSync returned.
C12_MkdirOncePerCreatedDirectory ==
    /\ [](/\ \A m, n \in mkdirCalls :
                 (m < n /\ mkdirs[m].returned) => mkdirs[m].dir # mkdirs[n].dir
          /\ \A n \in mkdirCalls :
                 ~mkdirs[n].cached /\ ~mkdirs[n].dryRun
                     /\ mkdirs[n].dir \notin {<< >>, <<"">>}
          /\ created = {mkdirs[n].dir : n \in {i \in mkdirCalls : mkdirs[i].returned}})
    /\ [][created \subseteq created']_vars

\* a directory was created at the second attempt, another at the first, and
\* the manager is now in a dry run
C12_Witness ==
    /\ pc = "main"
    /\ Len(mkdirs) = 3
    /\ mkdirs[1].dir = mkdirs[2].dir
    /\ ~mkdirs[1].returned
    /\ mkdirs[2].returned
    /\ mkdirs[3].returned
    /\ Cardinality(created) = 2
    /\ dryRun

----------------------------------------------------------------------------
(* Properties of entry.filePath *)

\* the path the collection loop of getEntries assigns to the k-th entry of the
\* source
collectedPath(k) == withFilePath(sourceEntry(k)).filePath

\* C13: the path of an entry is the one the collection loop assigned to it,
\* before any task has started; from the start of the fan-out to the end of
\* toFiles no step assigns another path to an entry, the tasks that rewrite
\* its content and content type included.
C13_FilePathAssignedOnce ==
    /\ [](pc = "main" => (started = << >> /\ entries = << >>))
    /\ [](pc # "main" =>
             /\ \A i \in 1..Len(entries) :
                    started[i] = 1 /\ entries[i].filePath = collectedPath(entries[i].id)
             /\ \A k \in 1..Len(result) :
                    result[k].filePath = collectedPath(result[k].id)
             /\ \A k \in reached : log[k].pathname = collectedPath(log[k].id))
    /\ [][(pc # "main" /\ pc' # "main") =>
             /\ \A i \in (1..Len(entries)) \cap (1..Len(entries')) :
                    entries'[i].filePath = entries[i].filePath
             /\ \A k \in (1..Len(result)) \cap (1..Len(result')) :
                    result'[k].filePath = result[k].filePath]_vars

\* the task of the entry rewrote its content and its content type, and toFiles
\* wrote the entry at the path of the collection loop
C13_Witness ==
    /\ pc = "done"
    /\ Len(log) = 1
    /\ log[1].outcome = "written"
    /\ promises[1] = "fulfilled"
    /\ result[1].contentType = "markdown"
    /\ result[1].content # "raw"
    /\ log[1].pathname = collectedPath(1)
    /\ log[1].pathname \in files

----------------------------------------------------------------------------
(* Properties of getFilePath *)

resolvedEntries == 1..Len(entries)

\* what the override function of the source returns for the entry
overrideReturn(entry) ==
    filepathFormatFunction(filepathFormat, entry.url, URLPathname(entry.url))

\* the output folder as the segments it adds in front of a relative path
outputFolderSegments ==
    IF outputFolder \in {".", ""} THEN << >> ELSE <<outputFolder>>

segments(pathname) == {pathname[n] : n \in 1..Len(pathname)}

\* C14 as stated: with an override function the path is the skip sentinel
\* exactly when the function returns false, and any other value it returns
\* is the path of the entry as it is.
C14_OverrideUsedVerbatim ==
    \A i \in resolvedEntries :
        filepathFormat # "none" =>
            /\ entries[i].filePath = SkipSentinel <=> overrideReturn(entries[i]) = SkipSentinel
            /\ overrideReturn(entries[i]) # SkipSentinel
                   => entries[i].filePath = overrideReturn(entries[i])

\* C14 amended: with an override function the path is the skip sentinel
\* exactly when the function returns false; any other value it returns is
\* joined to the output folder (it is the path as it is when the output folder
\* is "." or empty and the value is a normalised relative path), with no
\* extension appended, no drafts folder inserted and no hash put in the place
\* of a root path.
C14_OverrideJoinedToOutputFolder ==
    \A i \in resolvedEntries :
        filepathFormat # "none" =>
            LET returned == overrideReturn(entries[i])
                pathname == entries[i].filePath
            IN /\ pathname = SkipSentinel <=> returned = SkipSentinel
               /\ (returned # SkipSentinel /\ returned # <<"">>)
                      => /\ pathname = outputFolderSegments \o returned
                         /\ Last(pathname) = Last(returned)
                         /\ draftsFolder \notin segments(pathname)
                         /\ createHash(entries[i].url) \notin segments(pathname)
               /\ returned = <<"">>
                      => pathname = (IF outputFolder \in {".", ""} THEN <<".">>
                                      ELSE <<outputFolder>>)

\* the function returned a name without extension for a draft, and the output
\* folder is not the working directory
C14_Witness ==
    /\ filepathFormat = "slug"
    /\ outputFolder = "out"
    /\ Len(entries) = 1
    /\ entries[1].status = "draft"
    /\ overrideReturn(entries[1]) = <<"a">>
    /\ entries[1].filePath = <<"out", "a">>

\* the content type getFilePath is called with
targetContentType(entry) ==
    IF entry.contentType \in {"html", "text"} /\ format = "markdown"
    THEN "markdown" ELSE entry.contentType

\* the names of the fallback path: the hash for a root path, and without the
\* empty name a trailing separator leaves
fallbackNames(entry) ==
    LET fallbackPath == URLPathname(entry.url)
    IN IF fallbackPath = <<"">> THEN <<createHash(entry.url)>>
       ELSE IF Last(fallbackPath) = "" THEN Front(fallbackPath)
       ELSE fallbackPath

endsInSeparator(entry) ==
    URLPathname(entry.url) # <<"">> /\ Last(URLPathname(entry.url)) = ""

\* C15: without an override function the path ends in .md when the target
\* content type is markdown and in .html otherwise, has the drafts folder
\* (after the output folder) exactly when the entry is a draft, and, the
\* composed path ending in a separator, is index.<ext> in that directory when
\* assets are colocated and the path without the separator followed by .<ext>
\* in every other mode.
C15_PathComposition ==
    \A i \in resolvedEntries :
        filepathFormat = "none" =>
            LET entry == entries[i]
                pathname == entry.filePath
                ext == IF targetContentType(entry) = "markdown" THEN ".md" ELSE ".html"
                names == fallbackNames(entry)
                folders == outputFolderSegments
                               \o (IF entry.status = "draft" THEN <<draftsFolder>> ELSE << >>)
            IN /\ pathname # SkipSentinel
               /\ Last(pathname) \in {"index" \o ext, Last(names) \o ext}
               /\ draftsFolder \in segments(pathname) <=> entry.status = "draft"
               /\ entry.status = "draft"
                      => pathname[Len(outputFolderSegments) + 1] = draftsFolder
               /\ SubSeq(pathname, 1, Len(folders)) = folders
               /\ endsInSeparator(entry) =>
                      IF assetReferenceType = "colocate"
                      THEN pathname = folders \o names \o <<"index" \o ext>>
                      ELSE pathname = folders \o Front(names) \o <<Last(names) \o ext>>

\* a draft whose url ends in a separator, colocated assets, a content type
\* that is not written as markdown, an output folder
C15_Witness ==
    /\ filepathFormat = "none"
    /\ outputFolder = "out"
    /\ assetReferenceType = "colocate"
    /\ Len(entries) = 1
    /\ entries[1].url = "https://h/b/"
    /\ entries[1].status = "draft"
    /\ entries[1].contentType = "unknown"
    /\ entries[1].filePath = <<"out", "drafts", "b", "index.html">>

----------------------------------------------------------------------------
(* Properties of a call of toFiles that ends with the conflict error *)

writtenRecords == {j \in reached : log[j].outcome = "written"}

\* C16: when toFiles ends with the conflict error at position k, the entries
\* before k were processed in list order, every file written for them is still
\* there, counts.files and the calls of persistFile made for them stand, and
\* nothing is written or forwarded for the entry at k or for a later one.
C16_ConflictLeavesEarlierWrites ==
    pc = "conflict" =>
        /\ Len(log) = pos
        /\ log[pos].outcome = "conflict"
        /\ ~log[pos].persisted
        /\ \A k \in reached : log[k].id = result[k].id
        /\ counts = Cardinality(writtenRecords)
        /\ persisted = expectedCalls(pos - 1)
        /\ external = 0 =>
               /\ \A j \in writtenRecords : log[j].pathname \in files
               /\ files = {log[j].pathname : j \in writtenRecords}

\* the first entry was written and forwarded, the second one has its path
C16_Witness ==
    /\ pc = "conflict"
    /\ pos = 2
    /\ external = 0
    /\ log[1].outcome = "written"
    /\ log[1].persisted
    /\ log[1].pathname \in files
    /\ Len(persisted) = 1
    /\ counts = 1
    /\ log[2].url # log[1].url

----------------------------------------------------------------------------
(* Properties of the early skip of getEntries *)

\* the skip policy for the k-th entry of the source, on the disk as it is
skipsAtCollection(k) ==
    \/ collectedPath(k) = SkipSentinel
    \/ /\ safeMode
       /\ (collectedPath(k) \in files \/ collectedPath(k) \in dirs)
       /\ (sources[k].status # "draft" \/ ~allowDraftsToOverwrite)

\* C17: called for the file system, getEntries starts a task (related media,
\* content transformer, fetcher, markdown service) exactly for the entries the
\* skip policy does not hold for when they are collected; the others are in
\* no task and not in the list returned, and every returned entry has a path
\* that is not the skip sentinel.
C17_EarlySkip ==
    /\ (pc = "fanout" /\ target = "fs") =>
           /\ {entries[i].id : i \in 1..Len(entries)}
                  = {k \in 1..Len(sources) : ~skipsAtCollection(k)}
           /\ Len(promises) = Len(entries)
           /\ Len(started) = Len(entries)
    /\ (pc = "entries" /\ target = "fs") =>
           /\ \A k \in 1..Len(result) : result[k].filePath # SkipSentinel
           /\ \A k \in 1..Len(result) : result[k].id \in 1..Len(sources)
           /\ external = 0 => \A k \in 1..Len(result) : ~skipsAtCollection(result[k].id)
           /\ Len(result) <= Len(promises)

\* the file of the only entry exists, safe mode is on: no task was started
C17_Witness ==
    /\ pc = "fanout"
    /\ target = "fs"
    /\ safeMode
    /\ Len(sources) = 1
    /\ collectedPath(1) # SkipSentinel
    /\ collectedPath(1) \in files
    /\ entries = << >>
    /\ promises = << >>

----------------------------------------------------------------------------
(* Properties of the release of the markdown service *)

\* C18: in a call of getEntries markdownService.cleanup() is not called while
\* a task of the fan-out is pending; when the call returns it has been called
\* once if the run is not a dry run and not at all if it is.
C18_CleanupOnceAfterFanOut ==
    /\ [](pc \in {"main", "fanout"} => cleanups = 0)
    /\ [](pc = "entries" =>
             /\ cleanups = (IF dryRun THEN 0 ELSE 1)
             /\ \A i \in 1..Len(promises) : promises[i] \in {"fulfilled", "rejected"}
             /\ Len(settled) = Len(promises))
    /\ [][cleanups' > cleanups =>
             /\ cleanups' = cleanups + 1
             /\ ~dryRun
             /\ \A i \in 1..Len(promises) : promises[i] \in {"fulfilled", "rejected"}]_vars

\* one task threw, one returned, and the service was released after both
C18_Witness ==
    /\ pc = "entries"
    /\ ~dryRun
    /\ cleanups = 1
    /\ Len(promises) = 2
    /\ promises[1] = "rejected"
    /\ promises[2] = "fulfilled"
    /\ settled = <<2, 1>>

----------------------------------------------------------------------------
(* Properties of the conflict map *)

\* C19: toFiles raises the conflict error for an entry only when an earlier
\* entry of the same call, of another url, has claimed the path of the entry;
\* an entry whose path is the skip sentinel claims nothing and raises nothing.
C19_ConflictOnlyForClaimedPath ==
    /\ \A k \in reached :
           log[k].outcome = "conflict" =>
               \E j \in 1..(k - 1) :
                   /\ log[j].outcome # "sentinel"
                   /\ log[j].pathname = log[k].pathname
                   /\ log[j].url # log[k].url
    /\ \A k \in reached : log[k].pathname = SkipSentinel => log[k].outcome = "sentinel"
    /\ \A claim \in filepathConflicts : claim.pathname # SkipSentinel

\* C20: an entry of toFiles claims its path before the skip policy is asked
\* again: a skipped entry has its path in the conflict map, and a later entry
\* with the path of an earlier one that was skipped (or only listed, in a dry
\* run) ends the call with the conflict error, whether or not the skip policy
\* holds for the later entry too.
C20_ClaimBeforeSkip ==
    /\ \A k \in reached :
           log[k].outcome \in {"skipped", "written", "dryRun", "mkdirFailed", "writeFailed"}
               => \E claim \in filepathConflicts :
                      claim.pathname = log[k].pathname /\ claim.via = log[k].url
    /\ \A j, k \in reached :
           (j < k /\ log[j].outcome \in {"skipped", "dryRun"}
                  /\ log[k].pathname = log[j].pathname)
               => (log[k].outcome = "conflict" /\ pc = "conflict" /\ k = Len(log))

\* safe mode and a dry run: the file of both entries exists, the first entry is
\* skipped and the second, which would be skipped too, raises the error
C20_Witness ==
    /\ pc = "conflict"
    /\ safeMode
    /\ dryRun
    /\ Len(log) = 2
    /\ log[1].outcome = "skipped"
    /\ log[2].outcome = "conflict"
    /\ log[2].existed
    /\ policyHolds(log[2])
    /\ log[1].url # log[2].url

----------------------------------------------------------------------------
(* Properties of the write counter *)

\* C21: counts.files is the number of files toFiles has written, also after a
\* call that ended with the conflict error or with a directory creation or a
\* file write that failed.
C21_CounterMatchesWrites ==
    counts = Cardinality(writtenRecords)

====
